---- MODULE Spec2Model ----
(***************************************************************************)
(* Model of the Java code runner of src/main.py: the source analysers      *)
(* (extract_public_type, extract_package_name, code_mentions_main), the    *)
(* bytecode introspection (find_main_classes_with_javap) and the request   *)
(* handler run_java_code, stepped at its filesystem and child-process      *)
(* operations so that concurrent requests interleave.                      *)
(*                                                                         *)
(* Source text is a sequence of tokens.  A token is a sequence of strings: *)
(* a word is <<w>>, a dotted name p.q is <<"p","q">>, a punctuation mark   *)
(* is <<m>>, and a line break is NL.  Two adjacent tokens that are both    *)
(* words are separated by white space in the text (they would otherwise be *)
(* one word); blanks other than line breaks are not represented.           *)
(*                                                                         *)
(* The tools (javac, javap, java) are the environment: what they return is *)
(* drawn from small sets.  request.input_data is handed to the launched    *)
(* program and shows only in what that program returns, so it is not a     *)
(* variable of its own.  str(e) of an HTTPException is the text starlette  *)
(* prints, "<status_code>: <detail>".                                      *)
(*                                                                         *)
(* Time is counted in whole seconds, rounded up, per request: a child that *)
(* ends within its time adds the time it took, one that is killed adds its *)
(* timeout.  Spec is one request over every source and tool outcome,       *)
(* SpecConc several requests together, SpecTimed one request whose         *)
(* children take a short or a long time.                                   *)
(***************************************************************************)
EXTENDS Naturals, Sequences, FiniteSets, TLC

\* ------------------------------------------------------------------ bounds
NumReq == 2          \* requests that may be in flight together (SpecConc)
MaxMods == 1         \* modifier words between `public` and the type keyword
MaxClassFiles == 2   \* class files one compilation leaves in the workspace

\* ------------------------------------------------- numbers of the source
COMPILE_TIMEOUT == 20    \* subprocess.run(compile_cmd, ..., timeout=20)
JAVAP_TIMEOUT == 5       \* subprocess.run([javap_path, ...], timeout=5)
RUN_TIMEOUT == 10        \* subprocess.run([java_path, ...], timeout=10)

\* --------------------------------------------------------------- the text
NL == <<"\n">>
Punct == {"(", ")", "[]", "...", ";", "{", "}", "\n"}
\* words whose first character is a digit: [A-Za-z_] does not match there
DigitLed == {"9x"}
\* words the pattern `public` matches the end of (the patterns have no \b)
PublicSuffixed == {"public", "nonpublic"}
Kinds == {"class", "enum", "record", "interface"}

\* \w+ followed by white space or the end of a word: a whole word token
IsWord(tok) == Len(tok) = 1 /\ tok[1] \notin Punct
\* [\w\.]+ : a word or a dotted name (the varargs mark "..." is punctuation
\* here: no text of the pools puts it after `package`)
IsDotted(tok) == \A k \in 1..Len(tok) : tok[k] \notin Punct
\* the text before this point ends with the characters "public"
EndsWithPublic(tok) == IsDotted(tok) /\ tok[Len(tok)] \in PublicSuffixed
\* [A-Za-z_]\w* matches at the start of the token (and stops at a dot)
IsNameStart(tok) == tok[1] \notin Punct /\ tok[1] \notin DigitLed

\* \s+ and \s* match line breaks like any other white space
NoWs(code) == SelectSeq(code, LAMBDA tok : tok # NL)

Min(S) == CHOOSE x \in S : \A y \in S : x <= y
Max(S) == CHOOSE x \in S : \A y \in S : x >= y

\* The positions k of the type keyword for a match of
\*   public\s+(?:\w+\s+)*(class|enum|record|interface)\s+([A-Za-z_]\w*)
\* that starts at token i of t.
TypeKeywordAt(t, i) ==
    IF ~EndsWithPublic(t[i]) THEN {}
    ELSE { k \in (i + 1)..(Len(t) - 1) :
             /\ IsWord(t[k]) /\ t[k][1] \in Kinds
             /\ \A j \in (i + 1)..(k - 1) : IsWord(t[j])
             /\ IsNameStart(t[k + 1]) }

NoType == [kind |-> "", name |-> ""]

\* re.search: the leftmost start; (?:\w+\s+)* is greedy: the last keyword.
extract_public_type(code) ==
    LET t == NoWs(code)
        starts == { i \in 1..Len(t) : TypeKeywordAt(t, i) # {} }
    IN  IF starts = {} THEN NoType
        ELSE LET k == Max(TypeKeywordAt(t, Min(starts)))
             IN  [kind |-> t[k][1], name |-> t[k + 1][1]]

\* The first token after position i that is not a line break (0: none).
NextTok(code, i) ==
    LET later == { j \in (i + 1)..Len(code) : code[j] # NL }
    IN  IF later = {} THEN 0 ELSE Min(later)

\* ^\s*package\s+([\w\.]+)\s*; with re.MULTILINE, starting at token i
PackageAt(code, i) ==
    /\ code[i] = <<"package">>
    /\ (i = 1 \/ code[i - 1] = NL)
    /\ LET j == NextTok(code, i)
       IN  /\ j # 0
           /\ IsDotted(code[j])
           /\ LET k == NextTok(code, j)
              IN  k # 0 /\ code[k] = <<";">>

\* None is the empty name (the pattern needs one character at least).
extract_package_name(code) ==
    LET starts == { i \in 1..Len(code) : PackageAt(code, i) }
    IN  IF starts = {} THEN <<>> ELSE code[NextTok(code, Min(starts))]

\* public\s+static\s+void\s+main\s*\(\s*String(?:\s*\[\s*\]|\s*\.\.\.)\s*\w*\s*\)
MainAt(t, i) ==
    /\ i + 7 <= Len(t)
    /\ EndsWithPublic(t[i])
    /\ t[i + 1] = <<"static">>
    /\ t[i + 2] = <<"void">>
    /\ t[i + 3] = <<"main">>
    /\ t[i + 4] = <<"(">>
    /\ t[i + 5] = <<"String">>
    /\ t[i + 6] \in {<<"[]">>, <<"...">>}
    /\ \/ t[i + 7] = <<")">>
       \/ /\ i + 8 <= Len(t)
          /\ IsWord(t[i + 7])
          /\ t[i + 8] = <<")">>

code_mentions_main(code) ==
    LET t == NoWs(code) IN \E i \in 1..Len(t) : MainAt(t, i)

\* ------------------------------------------------------- submitted sources
PkgDecl == << <<"package">>, <<"p", "q">>, <<";">>, NL >>
\* no head; a package declaration; one that does not start its line
Prefixes == { <<>>, PkgDecl, << <<"x">> >> \o PkgDecl }

ModWords == {"final"}
ModSeqs == UNION { [1..n -> { <<w>> : w \in ModWords }] : n \in 0..MaxMods }

Decls ==
    { << <<"class">>, <<"Foo">> >>,
      << <<"nonpublic">>, <<"class">>, <<"Foo">> >>,
      << <<"public">>, <<"class">>, <<"9x">> >>,
      << <<"public">>, <<"class">>, <<"Main">> >> }
    \cup { << <<"public">> >> \o m \o << <<k>>, <<"Foo">> >> :
             m \in ModSeqs, k \in Kinds }

MainSig ==
    << <<"public">>, <<"static">>, <<"void">>, <<"main">>, <<"(">>,
       <<"String">>, <<"[]">>, <<"args">>, <<")">> >>
\* the same with a varargs parameter and no parameter name
VarargsSig ==
    << <<"public">>, <<"static">>, <<"void">>, <<"main">>, <<"(">>,
       <<"String">>, <<"...">>, <<")">> >>
Bodies ==
    { << <<"{">>, <<"}">> >>,
      << <<"{">> >> \o MainSig \o << <<"}">> >>,
      << <<"{">> >> \o VarargsSig \o << <<"}">> >> }

Sources == { p \o d \o b : p \in Prefixes, d \in Decls, b \in Bodies }
\* the source of concurrent requests: each declares `public class Main`
ConcSources ==
    { << <<"public">>, <<"class">>, <<"Main">>, <<"{">> >> \o MainSig
        \o << <<"}">> >> }

\* ------------------------------------------------------------ environment
Reqs == 1..NumReq
\* mkdtemp(prefix="java_run_"): the prefix and a random suffix
DirNames == { <<"java_run_", n>> : n \in 1..NumReq }
\* the names mkdtemp draws from when one request runs alone
SoloDirNames == { << "java_run_", 1 >> }
NoDir == <<>>
\* a directory of the scratch root: whether it exists, the request that
\* created it, and the files below it
NoSuchDir == [exists |-> FALSE, owner |-> 0, files |-> {}]

\* A file of a workspace: its directory below the workspace root, its name
\* as stem and extension, the request whose source text it holds or was
\* compiled from, and (a class file) whether the class has a public static
\* void main(String[]).
File(dir, stem, ext, origin, hasMain) ==
    [dir |-> dir, stem |-> stem, ext |-> ext, origin |-> origin,
     hasMain |-> hasMain]
SamePath(f, g) == f.dir = g.dir /\ f.stem = g.stem /\ f.ext = g.ext

\* what javac may leave behind: classes by path and entry method
ClassShapes ==
    { [dir |-> <<>>, stem |-> "Main", hasMain |-> TRUE],
      [dir |-> <<>>, stem |-> "Main", hasMain |-> FALSE],
      [dir |-> <<"p", "q">>, stem |-> "Foo", hasMain |-> TRUE],
      [dir |-> <<"p", "q">>, stem |-> "Foo", hasMain |-> FALSE],
      [dir |-> <<>>, stem |-> "Main$Inner", hasMain |-> TRUE],
      [dir |-> <<>>, stem |-> "Helper", hasMain |-> TRUE] }
ClassSets ==
    { S \in SUBSET ClassShapes :
        /\ Cardinality(S) <= MaxClassFiles
        /\ \A a, b \in S : (a.dir = b.dir /\ a.stem = b.stem) => a = b }
\* no class file taken for a nested class
HasDollarNever(stem) == FALSE

\* "$" in class_file.name
HasDollar(stem) == stem \in {"Main$Inner"}

\* the tools shutil.which may find on the host's search path
ToolSets == SUBSET {"javac", "java", "javap"}
ConcToolSets == { {"javac", "java", "javap"}, {"javac", "javap"}, {"java"} }

Proc(rc, out, err) == [returncode |-> rc, stdout |-> out, stderr |-> err]
NoProc == Proc(0, "", "")
CompileErrors ==
    { Proc(1, "", "Main.java:1: error: ';' expected"),
      Proc(2, "warning: x", "error: file not found") }
\* a compilation: its result and the class files it wrote
CompileOutcomes ==
    { [p |-> e, classes |-> {}] : e \in CompileErrors }
    \cup { [p |-> Proc(0, "", ""), classes |-> S] : S \in ClassSets }
ConcCompileOutcomes ==
    { [p |-> Proc(1, "", "Main.java:1: error: ';' expected"), classes |-> {}],
      [p |-> Proc(0, "", ""),
       classes |-> { [dir |-> <<>>, stem |-> "Main", hasMain |-> TRUE] }] }
RunOutcomes ==
    { Proc(0, "hi\n", ""), Proc(0, "", ""), Proc(0, "", "warn"),
      Proc(1, "hi\n", "Exception in thread \"main\""),
      Proc(1, "", "Exception in thread \"main\"") }
ConcRunOutcomes == { Proc(0, "hi\n", "") }
\* the launcher itself failing: class not found, or no main method in it
LauncherError == Proc(1, "", "Error: Main method not found in class")
OSErrors == { "[Errno 28] No space left on device", "[Errno 13] Permission denied" }
ConcOSErrors == { "[Errno 28] No space left on device" }

Perms(S) ==
    { q \in [1..Cardinality(S) -> S] :
        \A i, j \in 1..Cardinality(S) : q[i] = q[j] => i = j }

\* a directory strictly above another
Above(a, b) == Len(a) < Len(b) /\ SubSeq(b, 1, Len(a)) = a

\* Path(work_dir).rglob("*.class"): each directory's entries in the order
\* the file system lists them, a directory's own before its subdirectories'
rglob(files) ==
    { q \in Perms(files) :
        \A i, j \in 1..Len(q) : Above(q[i].dir, q[j].dir) => i < j }

\* how long a child that ends within its time has run, in whole seconds
\* rounded up: one representative time, and a short, a middling, a long one
Durations == { 5 }
TimedDurations == { 1, 5, 20 }

\* ------------------------------------------------------------- exceptions
Exc(type, status, detail) == [type |-> type, status |-> status, detail |-> detail]
NoExc == Exc("", 0, "")
NoMainDetail == "No main(String[]) method found to run."
\* str(e): starlette's HTTPException prints "<status_code>: <detail>"
Str(e) ==
    IF e.type = "HTTPException" /\ e.status = 400 /\ e.detail = NoMainDetail
    THEN "400: No main(String[]) method found to run."
    ELSE e.detail

\* what the caller gets when the handler raises HTTPException
HTTPError(status, detail) ==
    [stage |-> "error", status_code |-> status, detail |-> detail]
NoResp == [stage |-> "none"]

\* ------------------------------------------------------------------ state
VARIABLES
    pc,               \* where each request is in run_java_code
    code,             \* request.code
    javac_path,       \* whether shutil.which("javac") found the tool
    java_path,        \* whether shutil.which("java") found the tool
    javap_path,       \* whether shutil.which("javap") found the tool
    work_dir,         \* the request's workspace directory
    public_name,      \* the name extract_public_type returned ("": None)
    filename,         \* the source file's name, <<stem, extension>>
    compile_process,  \* the compiler's CompletedProcess
    run_process,      \* the launcher's CompletedProcess
    scan,             \* class files rglob has still to yield
    javap_result,     \* what the last run of the introspection tool ended with
    mains,            \* main_classes of find_main_classes_with_javap
    candidate,        \* the entry point (<<>>: None)
    pending,          \* what the try block ended with, before `finally`
    raised,           \* the exception first raised for the request
    resp,             \* what the caller received
    fs,               \* the directories under the scratch root
    procs,            \* the child processes alive
    log,              \* the child processes each request started
    clock             \* seconds each request has waited for its children

vars == << pc, code, javac_path, java_path, javap_path, work_dir,
           public_name, filename, compile_process, run_process, scan,
           javap_result, mains, candidate, pending, raised, resp, fs, procs,
           log, clock >>

Init ==
    /\ pc = [r \in Reqs |-> "idle"]
    /\ code = [r \in Reqs |-> <<>>]
    /\ javac_path = [r \in Reqs |-> FALSE]
    /\ java_path = [r \in Reqs |-> FALSE]
    /\ javap_path = [r \in Reqs |-> FALSE]
    /\ work_dir = [r \in Reqs |-> NoDir]
    /\ public_name = [r \in Reqs |-> ""]
    /\ filename = [r \in Reqs |-> <<>>]
    /\ compile_process = [r \in Reqs |-> NoProc]
    /\ run_process = [r \in Reqs |-> NoProc]
    /\ scan = [r \in Reqs |-> <<>>]
    /\ javap_result = [r \in Reqs |-> [t |-> "none"]]
    /\ mains = [r \in Reqs |-> <<>>]
    /\ candidate = [r \in Reqs |-> <<>>]
    /\ pending = [r \in Reqs |-> [t |-> "none"]]
    /\ raised = [r \in Reqs |-> NoExc]
    /\ resp = [r \in Reqs |-> NoResp]
    /\ fs = [d \in DirNames |-> NoSuchDir]
    /\ procs = {}
    /\ log = [r \in Reqs |-> <<>>]
    /\ clock = [r \in Reqs |-> 0]

\* ---------------------------------------------------------------- helpers
Child(r, tool, cwd) == [owner |-> r, tool |-> tool, cwd |-> cwd]
Invocation(tool, cwd, arg, t) ==
    [tool |-> tool, cwd |-> cwd, arg |-> arg, timeout |-> t]

\* one deadline for compiling and running: the launcher gets what the
\* earlier steps left of it
TimeoutLeftOver(tool, elapsed) ==
    CASE tool = "javac" -> COMPILE_TIMEOUT
      [] tool = "javap" -> JAVAP_TIMEOUT
      [] tool = "java" ->
            IF elapsed < COMPILE_TIMEOUT + RUN_TIMEOUT
            THEN COMPILE_TIMEOUT + RUN_TIMEOUT - elapsed ELSE 1

\* the timeout= argument of the three subprocess.run calls
Timeout(tool, elapsed) ==
    CASE tool = "javac" -> COMPILE_TIMEOUT
      [] tool = "javap" -> JAVAP_TIMEOUT
      [] tool = "java" -> RUN_TIMEOUT

\* the timeout the request's running child was started with
Budget(r) == log[r][Len(log[r])].timeout
ENOENT == "[Errno 2] No such file or directory"
JdkMissing == "Java JDK not found. Ensure JDK is installed and in PATH."
TimedOut == "Code execution timed out."

\* writing files into a directory: a file replaces the one at its path
PutFiles(files, new) ==
    { f \in files : \A g \in new : ~SamePath(f, g) } \cup new

\* the source file always given the default name
SourceFileNameFixed(name) == << "Main", "java" >>
\* the source file named after the public type with no default
SourceFileNameNoDefault(name) == << name, "java" >>

\* f"{public_name or 'Main'}.java"
SourceFileName(name) == << IF name # "" THEN name ELSE "Main", "java" >>

\* one fixed directory shared by every request
mkdtempShared(fsys, names) == { << "java_run_", 1 >> }

\* tempfile.mkdtemp: the names it may return, none of them in use
mkdtemp(fsys, names) == { d \in names : ~fsys[d].exists }

\* shutil.rmtree(work_dir, ignore_errors=True)
rmtree(fsys, d) == [fsys EXCEPT ![d] = NoSuchDir]

\* the workspace removed on the return paths only
CleanupOnReturn(fsys, d, pend) ==
    IF pend.t = "return" THEN rmtree(fsys, d) ELSE fsys

\* the `finally` clause runs whatever the try block ended with
Cleanup(fsys, d, pend) == rmtree(fsys, d)

\* str(class_file.relative_to(work_dir)).replace(os.sep, ".")[:-6]
BinaryName(f) == f.dir \o << f.stem >>

\* the class a tool started in directory d loads for a binary name
ClassesNamed(fsys, d, name) ==
    { g \in fsys[d].files : g.ext = "class" /\ BinaryName(g) = name }

\* the entry point named without its package
Unqualified(pkg, name) == << name >>

\* f"{package_name}.{public_name}" if package_name else public_name
Qualified(pkg, name) == IF pkg # <<>> THEN pkg \o << name >> ELSE << name >>

\* the source text consulted before the introspection result
ResolveFromSourceFirst(ms, c, name) ==
    IF name # "" THEN Qualified(extract_package_name(c), name)
    ELSE IF ms # <<>> THEN ms[1]
    ELSE <<>>

\* the source text's public type offered only with a textual main
ResolveWithoutBestEffort(ms, c, name) ==
    IF ms # <<>> THEN ms[1]
    ELSE IF name # "" /\ code_mentions_main(c)
         THEN Qualified(extract_package_name(c), name)
         ELSE <<>>

\* lines 114-128: the entry point, <<>> when there is none
ResolveCandidate(ms, c, name) ==
    IF ms # <<>> THEN ms[1]
    ELSE LET package_name == extract_package_name(c)
         IN  IF name # "" /\ code_mentions_main(c)
             THEN Qualified(package_name, name)
             ELSE IF name # "" THEN Qualified(package_name, name)
             ELSE <<>>

\* the compile response reporting the compiler's output stream as its errors
CompileResponseStdout(p) ==
    [ok |-> FALSE, stage |-> "compile", stdout |-> p.stdout,
     stderr |-> p.stdout, output |-> p.stdout, exit_code |-> p.returncode]

CompileResponse(p) ==
    [ok |-> FALSE, stage |-> "compile", stdout |-> p.stdout,
     stderr |-> p.stderr, output |-> p.stderr, exit_code |-> p.returncode]

\* the run response whose output field is always the program's stdout
RunResponseStdoutOnly(p, cand) ==
    [ok |-> TRUE, stage |-> "run", stdout |-> p.stdout, stderr |-> p.stderr,
     output |-> p.stdout, exit_code |-> p.returncode, main_class |-> cand]

\* lines 144-152: the response of a program that was run
RunResponse(p, cand) ==
    [ok |-> TRUE, stage |-> "run", stdout |-> p.stdout, stderr |-> p.stderr,
     output |-> IF p.stdout # "" THEN p.stdout ELSE p.stderr,
     exit_code |-> p.returncode, main_class |-> cand]

\* the except clauses without the one for TimeoutExpired
HandlerNoTimeoutClause(e) == HTTPError(500, Str(e))

\* the except clauses of run_java_code
Handler(e) ==
    IF e.type = "TimeoutExpired" THEN HTTPError(400, TimedOut)
    ELSE HTTPError(500, Str(e))

Raise(r, e) ==
    /\ pending' = [pending EXCEPT ![r] = [t |-> "raise", e |-> e]]
    /\ raised' = [raised EXCEPT ![r] = e]
    /\ pc' = [pc EXCEPT ![r] = "finally"]

Return(r, v) ==
    /\ pending' = [pending EXCEPT ![r] = [t |-> "return", v |-> v]]
    /\ pc' = [pc EXCEPT ![r] = "finally"]
    /\ UNCHANGED raised

\* the text javap -public prints for a class: its main method, if any
JavapListing(listed) ==
    IF listed THEN "public static void main(java.lang.String[]);" ELSE ""

\* ---------------------------------------------------------------- actions
\* the request refused for a missing compiler only
LocateToolsCompilerOnly(r, srcs, paths) ==
    /\ pc[r] = "idle"
    /\ \E c \in srcs, found \in paths :
        /\ code' = [code EXCEPT ![r] = c]
        /\ javac_path' = [javac_path EXCEPT ![r] = "javac" \in found]
        /\ java_path' = [java_path EXCEPT ![r] = "java" \in found]
        /\ javap_path' = [javap_path EXCEPT ![r] = "javap" \in found]
        /\ IF "javac" \notin found
           THEN /\ resp' = [resp EXCEPT ![r] = HTTPError(500, JdkMissing)]
                /\ raised' = [raised EXCEPT ![r] =
                                 Exc("HTTPException", 500, JdkMissing)]
                /\ pc' = [pc EXCEPT ![r] = "done"]
           ELSE /\ pc' = [pc EXCEPT ![r] = "mkdtemp"]
                /\ UNCHANGED << resp, raised >>
    /\ UNCHANGED << work_dir, public_name, filename, compile_process,
                    run_process, scan, mains, candidate, pending, fs, procs,
                    log, clock, javap_result >>

\* Lines 74-84: a request arrives and the three tools are looked up.
LocateTools(r, srcs, paths) ==
    /\ pc[r] = "idle"
    /\ \E c \in srcs, found \in paths :
        /\ code' = [code EXCEPT ![r] = c]
        /\ javac_path' = [javac_path EXCEPT ![r] = "javac" \in found]
        /\ java_path' = [java_path EXCEPT ![r] = "java" \in found]
        /\ javap_path' = [javap_path EXCEPT ![r] = "javap" \in found]
        /\ IF "javac" \notin found \/ "java" \notin found
           THEN /\ resp' = [resp EXCEPT ![r] = HTTPError(500, JdkMissing)]
                /\ raised' = [raised EXCEPT ![r] =
                                 Exc("HTTPException", 500, JdkMissing)]
                /\ pc' = [pc EXCEPT ![r] = "done"]
           ELSE /\ pc' = [pc EXCEPT ![r] = "mkdtemp"]
                /\ UNCHANGED << resp, raised >>
    /\ UNCHANGED << work_dir, public_name, filename, compile_process,
                    run_process, scan, mains, candidate, pending, fs, procs,
                    log, clock, javap_result >>

\* Line 86: the workspace directory is created.
MakeWorkDir(r, names) ==
    /\ pc[r] = "mkdtemp"
    /\ \E d \in mkdtemp(fs, names) :
        /\ fs' = [fs EXCEPT ![d] =
                     IF @.exists THEN @
                     ELSE [exists |-> TRUE, owner |-> r, files |-> {}]]
        /\ work_dir' = [work_dir EXCEPT ![r] = d]
    /\ pc' = [pc EXCEPT ![r] = "write"]
    /\ UNCHANGED << code, javac_path, java_path, javap_path, public_name,
                    filename, compile_process, run_process, scan, mains,
                    candidate, pending, raised, resp, procs, log, clock,
                    javap_result >>

\* Lines 90-95: the file name is chosen and the source text written.
WriteSource(r, oserrors) ==
    /\ pc[r] = "write"
    /\ LET name == extract_public_type(code[r]).name
           fn == SourceFileName(name)
           d == work_dir[r]
       IN  /\ public_name' = [public_name EXCEPT ![r] = name]
           /\ filename' = [filename EXCEPT ![r] = fn]
           /\ \/ /\ fs[d].exists
                 /\ fs' = [fs EXCEPT ![d].files =
                              PutFiles(@, { File(<<>>, fn[1], fn[2], r, FALSE) })]
                 /\ pc' = [pc EXCEPT ![r] = "compile"]
                 /\ UNCHANGED << pending, raised >>
              \/ /\ \E m \in (IF fs[d].exists THEN oserrors ELSE {ENOENT}) :
                        Raise(r, Exc("OSError", 0, m))
                 /\ UNCHANGED fs
    /\ UNCHANGED << code, javac_path, java_path, javap_path, work_dir,
                    compile_process, run_process, scan, mains, candidate,
                    resp, procs, log, clock, javap_result >>

\* Lines 98-101: the compiler is started in the workspace.
StartCompile(r) ==
    /\ pc[r] = "compile"
    /\ LET d == work_dir[r]
       IN  IF fs[d].exists
           THEN /\ procs' = procs \cup { Child(r, "javac", d) }
                /\ log' = [log EXCEPT ![r] =
                              Append(@, Invocation("javac", d, filename[r],
                                                   Timeout("javac", clock[r])))]
                /\ pc' = [pc EXCEPT ![r] = "compiling"]
                /\ UNCHANGED << pending, raised >>
           ELSE /\ Raise(r, Exc("OSError", 0, ENOENT))
                /\ UNCHANGED << procs, log >>
    /\ UNCHANGED << code, javac_path, java_path, javap_path, work_dir,
                    public_name, filename, compile_process, run_process, scan,
                    mains, candidate, resp, fs, clock, javap_result >>

\* Lines 99-111: the compiler ends within its time; a non-zero exit code is
\* answered at once.
CompileExit(r, outcomes, durations) ==
    /\ pc[r] = "compiling"
    /\ LET d == work_dir[r]
           srcs == { f \in fs[d].files :
                       f.dir = <<>> /\ f.stem = filename[r][1] /\ f.ext = "java" }
       IN  \E o \in (IF srcs = {}
                     THEN { [p |-> Proc(2, "", "error: file not found"),
                             classes |-> {}] }
                     ELSE outcomes) :
             /\ compile_process' = [compile_process EXCEPT ![r] = o.p]
             /\ fs' = [fs EXCEPT ![d].files =
                          PutFiles(@, { File(c.dir, c.stem, "class",
                                             (CHOOSE f \in srcs : TRUE).origin,
                                             c.hasMain) : c \in o.classes })]
             /\ IF o.p.returncode # 0
                THEN Return(r, CompileResponse(o.p))
                ELSE /\ pc' = [pc EXCEPT ![r] = "introspect"]
                     /\ UNCHANGED << pending, raised >>
    /\ procs' = procs \ { Child(r, "javac", work_dir[r]) }
    /\ \E dur \in durations :
        /\ dur <= Budget(r)
        /\ clock' = [clock EXCEPT ![r] = @ + dur]
    /\ UNCHANGED << code, javac_path, java_path, javap_path, work_dir,
                    public_name, filename, run_process, scan, mains,
                    candidate, resp, log, javap_result >>

\* the compile timeout raised with the compiler left running
CompileTimeoutLeavesChild(r) ==
    /\ pc[r] = "compiling"
    /\ Raise(r, Exc("TimeoutExpired", 0, "javac"))
    /\ clock' = [clock EXCEPT ![r] = @ + Budget(r)]
    /\ UNCHANGED << code, javac_path, java_path, javap_path, work_dir,
                    public_name, filename, compile_process, run_process, scan,
                    mains, candidate, resp, fs, procs, log, javap_result >>

\* Lines 99-101, 154-155: the compile timeout expires; subprocess.run kills
\* the child and raises TimeoutExpired.
CompileTimeout(r) ==
    /\ pc[r] = "compiling"
    /\ procs' = procs \ { Child(r, "javac", work_dir[r]) }
    /\ Raise(r, Exc("TimeoutExpired", 0, "javac"))
    /\ clock' = [clock EXCEPT ![r] = @ + Budget(r)]
    /\ UNCHANGED << code, javac_path, java_path, javap_path, work_dir,
                    public_name, filename, compile_process, run_process, scan,
                    mains, candidate, resp, fs, log, javap_result >>

\* Lines 114-117, 52: introspection begins, when the tool was found, over
\* the class files as rglob yields them.
Introspect(r) ==
    /\ pc[r] = "introspect"
    /\ IF javap_path[r]
       THEN \E order \in rglob({ f \in fs[work_dir[r]].files : f.ext = "class" }) :
              /\ scan' = [scan EXCEPT ![r] = order]
              /\ pc' = [pc EXCEPT ![r] = "scan"]
       ELSE /\ pc' = [pc EXCEPT ![r] = "resolve"]
            /\ UNCHANGED scan
    /\ UNCHANGED << code, javac_path, java_path, javap_path, work_dir,
                    public_name, filename, compile_process, run_process,
                    javap_result, mains, candidate, pending, raised, resp,
                    fs, procs, log, clock >>

\* Lines 52-63, 71: the next class file; a nested class is passed over, for
\* any other the introspection tool is started; after the last one the
\* function returns.
ScanNext(r) ==
    /\ pc[r] = "scan"
    /\ IF scan[r] = <<>>
       THEN /\ pc' = [pc EXCEPT ![r] = "resolve"]
            /\ javap_result' = [javap_result EXCEPT ![r] = [t |-> "none"]]
            /\ UNCHANGED << scan, procs, log >>
       ELSE LET f == Head(scan[r])
                d == work_dir[r]
            IN  IF HasDollar(f.stem) \/ ~fs[d].exists
                THEN /\ scan' = [scan EXCEPT ![r] = Tail(@)]
                     /\ UNCHANGED << pc, javap_result, procs, log >>
                ELSE /\ procs' = procs \cup { Child(r, "javap", d) }
                     /\ log' = [log EXCEPT ![r] =
                                   Append(@, Invocation("javap", d, BinaryName(f),
                                                        Timeout("javap", clock[r])))]
                     /\ pc' = [pc EXCEPT ![r] = "javap"]
                     /\ UNCHANGED << scan, javap_result >>
    /\ UNCHANGED << code, javac_path, java_path, javap_path, work_dir,
                    public_name, filename, compile_process, run_process,
                    mains, candidate, pending, raised, resp, fs, clock >>

\* Lines 57-68: the introspection tool ends within its time; the class is a
\* candidate when the tool returned 0 and printed a main method.
JavapExit(r, durations) ==
    /\ pc[r] = "javap"
    /\ LET f == Head(scan[r])
           d == work_dir[r]
           listed == \E g \in ClassesNamed(fs, d, BinaryName(f)) : g.hasMain
       IN  \E returncode \in {0, 1} :
             LET p == IF returncode = 0
                      THEN Proc(0, JavapListing(listed), "")
                      ELSE Proc(1, "", "Error: class not found")
             IN  /\ javap_result' = [javap_result EXCEPT ![r] =
                                        [t |-> "return", v |-> p]]
                 /\ mains' = [mains EXCEPT ![r] =
                                 IF p.returncode = 0 /\ p.stdout = JavapListing(TRUE)
                                 THEN Append(@, BinaryName(f)) ELSE @]
    /\ procs' = procs \ { Child(r, "javap", work_dir[r]) }
    /\ scan' = [scan EXCEPT ![r] = Tail(@)]
    /\ pc' = [pc EXCEPT ![r] = "scan"]
    /\ \E dur \in durations :
        /\ dur <= Budget(r)
        /\ clock' = [clock EXCEPT ![r] = @ + dur]
    /\ UNCHANGED << code, javac_path, java_path, javap_path, work_dir,
                    public_name, filename, compile_process, run_process,
                    candidate, pending, raised, resp, fs, log >>

\* the introspection timeout raised out of the scan
JavapTimeoutRaises(r) ==
    /\ pc[r] = "javap"
    /\ procs' = procs \ { Child(r, "javap", work_dir[r]) }
    /\ javap_result' = [javap_result EXCEPT ![r] =
                           [t |-> "raise", e |-> Exc("TimeoutExpired", 0, "javap")]]
    /\ Raise(r, Exc("TimeoutExpired", 0, "javap"))
    /\ clock' = [clock EXCEPT ![r] = @ + Budget(r)]
    /\ UNCHANGED << code, javac_path, java_path, javap_path, work_dir,
                    public_name, filename, compile_process, run_process,
                    scan, mains, candidate, resp, fs, log >>

\* Lines 57-63, 69-70: the introspection timeout expires; the child is
\* killed and the exception swallowed.
JavapTimeout(r) ==
    /\ pc[r] = "javap"
    /\ procs' = procs \ { Child(r, "javap", work_dir[r]) }
    /\ javap_result' = [javap_result EXCEPT ![r] =
                           [t |-> "raise", e |-> Exc("TimeoutExpired", 0, "javap")]]
    /\ scan' = [scan EXCEPT ![r] = Tail(@)]
    /\ pc' = [pc EXCEPT ![r] = "scan"]
    /\ clock' = [clock EXCEPT ![r] = @ + Budget(r)]
    /\ UNCHANGED << code, javac_path, java_path, javap_path, work_dir,
                    public_name, filename, compile_process, run_process,
                    mains, candidate, pending, raised, resp, fs, log >>

\* Lines 119-142: the entry point is resolved and the launcher started on
\* it, or the request fails for want of one.
Resolve(r) ==
    /\ pc[r] = "resolve"
    /\ LET cand == ResolveCandidate(mains[r], code[r], public_name[r])
           d == work_dir[r]
       IN  /\ candidate' = [candidate EXCEPT ![r] = cand]
           /\ IF cand = <<>>
              THEN /\ Raise(r, Exc("HTTPException", 400, NoMainDetail))
                   /\ UNCHANGED << procs, log >>
              ELSE IF ~fs[d].exists
              THEN /\ Raise(r, Exc("OSError", 0, ENOENT))
                   /\ UNCHANGED << procs, log >>
              ELSE /\ procs' = procs \cup { Child(r, "java", d) }
                   /\ log' = [log EXCEPT ![r] =
                                 Append(@, Invocation("java", d, cand,
                                                      Timeout("java", clock[r])))]
                   /\ pc' = [pc EXCEPT ![r] = "running"]
                   /\ UNCHANGED << pending, raised >>
    /\ UNCHANGED << code, javac_path, java_path, javap_path, work_dir,
                    public_name, filename, compile_process, run_process, scan,
                    mains, resp, fs, clock, javap_result >>

\* the launcher run with check=True: a non-zero exit code raises
RunExitChecked(r, outcomes, durations) ==
    /\ pc[r] = "running"
    /\ \E o \in (IF \E g \in ClassesNamed(fs, work_dir[r], candidate[r]) : g.hasMain
                 THEN outcomes ELSE { LauncherError }) :
          /\ run_process' = [run_process EXCEPT ![r] = o]
          /\ IF o.returncode # 0
             THEN Raise(r, Exc("CalledProcessError", 0,
                               "Command returned non-zero exit status"))
             ELSE Return(r, RunResponse(o, candidate[r]))
    /\ procs' = procs \ { Child(r, "java", work_dir[r]) }
    /\ \E dur \in durations :
        /\ dur <= Budget(r)
        /\ clock' = [clock EXCEPT ![r] = @ + dur]
    /\ UNCHANGED << code, javac_path, java_path, javap_path, work_dir,
                    public_name, filename, compile_process, scan, mains,
                    candidate, resp, fs, log, javap_result >>

\* Lines 135-152: the program ends within its time.  A class that is missing
\* or has no main method makes the launcher itself fail.
RunExit(r, outcomes, durations) ==
    /\ pc[r] = "running"
    /\ \E o \in (IF \E g \in ClassesNamed(fs, work_dir[r], candidate[r]) : g.hasMain
                 THEN outcomes ELSE { LauncherError }) :
          /\ run_process' = [run_process EXCEPT ![r] = o]
          /\ Return(r, RunResponse(o, candidate[r]))
    /\ procs' = procs \ { Child(r, "java", work_dir[r]) }
    /\ \E dur \in durations :
        /\ dur <= Budget(r)
        /\ clock' = [clock EXCEPT ![r] = @ + dur]
    /\ UNCHANGED << code, javac_path, java_path, javap_path, work_dir,
                    public_name, filename, compile_process, scan, mains,
                    candidate, resp, fs, log, javap_result >>

\* Lines 135-142, 154-155: the execution timeout expires; subprocess.run
\* kills the child and raises TimeoutExpired.
RunTimeout(r) ==
    /\ pc[r] = "running"
    /\ procs' = procs \ { Child(r, "java", work_dir[r]) }
    /\ Raise(r, Exc("TimeoutExpired", 0, "java"))
    /\ clock' = [clock EXCEPT ![r] = @ + Budget(r)]
    /\ UNCHANGED << code, javac_path, java_path, javap_path, work_dir,
                    public_name, filename, compile_process, run_process, scan,
                    mains, candidate, resp, fs, log, javap_result >>

\* Lines 154-159: the except clauses, then the workspace is removed and the
\* caller answered.
Finally(r) ==
    /\ pc[r] = "finally"
    /\ fs' = Cleanup(fs, work_dir[r], pending[r])
    /\ resp' = [resp EXCEPT ![r] =
                   IF pending[r].t = "return" THEN pending[r].v
                   ELSE Handler(pending[r].e)]
    /\ pc' = [pc EXCEPT ![r] = "done"]
    /\ UNCHANGED << code, javac_path, java_path, javap_path, work_dir,
                    public_name, filename, compile_process, run_process, scan,
                    mains, candidate, pending, raised, procs, log, clock,
                    javap_result >>

\* --------------------------------------------------------- specifications
Step(r, srcs, paths, names, compiles, runs, oserrors, durations) ==
    \/ LocateTools(r, srcs, paths)
    \/ MakeWorkDir(r, names)
    \/ WriteSource(r, oserrors)
    \/ StartCompile(r)
    \/ CompileExit(r, compiles, durations)
    \/ CompileTimeout(r)
    \/ Introspect(r)
    \/ ScanNext(r)
    \/ JavapExit(r, durations)
    \/ JavapTimeout(r)
    \/ Resolve(r)
    \/ RunExit(r, runs, durations)
    \/ RunTimeout(r)
    \/ Finally(r)

\* one request, over every source and every outcome of the tools
SoloReqs == {1}
Next ==
    \E r \in SoloReqs :
        Step(r, Sources, ToolSets, SoloDirNames, CompileOutcomes, RunOutcomes,
             OSErrors, Durations)
Spec == Init /\ [][Next]_vars

\* NumReq requests in flight together
NextConc ==
    \E r \in Reqs :
        Step(r, ConcSources, ConcToolSets, DirNames, ConcCompileOutcomes,
             ConcRunOutcomes, ConcOSErrors, Durations)
SpecConc == Init /\ [][NextConc]_vars

\* one request whose children take a short or a long time, over a
\* compilation that fails or leaves two classes with a main method
TimedCompileOutcomes ==
    { [p |-> Proc(1, "", "Main.java:1: error: ';' expected"), classes |-> {}],
      [p |-> Proc(0, "", ""),
       classes |-> { [dir |-> <<>>, stem |-> "Main", hasMain |-> TRUE],
                     [dir |-> <<>>, stem |-> "Helper", hasMain |-> TRUE] }] }
NextTimed ==
    \E r \in SoloReqs :
        Step(r, ConcSources, ConcToolSets, SoloDirNames, TimedCompileOutcomes,
             ConcRunOutcomes, ConcOSErrors, TimedDurations)
SpecTimed == Init /\ [][NextTimed]_vars

\* ------------------------------------------------------ reading the state
ToolsStarted(r, tool) == { i \in 1..Len(log[r]) : log[r][i].tool = tool }
ChildrenOf(r) == { p \in procs : p.owner = r }
\* the request holds a workspace it has written its source into
Written(r) ==
    pc[r] \in {"compile", "compiling", "introspect", "scan", "javap",
               "resolve", "running"}
\* the compiler ended with exit code 0
Compiled(r) ==
    \/ pc[r] \in {"introspect", "scan", "javap", "resolve", "running"}
    \/ /\ pc[r] \in {"finally", "done"}
       /\ ToolsStarted(r, "javac") # {}
       /\ compile_process[r].returncode = 0
       /\ raised[r] # Exc("TimeoutExpired", 0, "javac")
\* introspection and entry point resolution are over
Resolved(r) == Compiled(r) /\ pc[r] \in {"running", "finally", "done"}
Failed(r) == pc[r] = "done" /\ raised[r] # NoExc

CompileFailureStops ==
    \A r \in Reqs :
        compile_process[r].returncode # 0 =>
            /\ ToolsStarted(r, "javap") = {}
            /\ ToolsStarted(r, "java") = {}
            /\ pc[r] \in {"finally", "done"}
            /\ pc[r] = "done" =>
                /\ resp[r].ok = FALSE
                /\ resp[r].stage = "compile"
                /\ resp[r].stderr = compile_process[r].stderr
                /\ resp[r].exit_code = compile_process[r].returncode
                /\ "main_class" \notin DOMAIN resp[r]

\* C2 witness: a compile failure whose two streams differ has been answered.
CompileFailureStopsWitness ==
    \E r \in Reqs :
        /\ pc[r] = "done"
        /\ compile_process[r].returncode = 2
        /\ compile_process[r].stdout # compile_process[r].stderr
        /\ resp[r].stage = "compile"

\* the failure category of a request that failed, from the exception that
\* was first raised for it
Category(r) ==
    CASE raised[r] = Exc("HTTPException", 500, JdkMissing) -> "toolchain"
      [] raised[r] = Exc("HTTPException", 400, NoMainDetail) -> "no entry point"
      [] raised[r].type = "TimeoutExpired" -> "timeout"
      [] OTHER -> "internal"

\* C3: each of the four failure categories reaches the caller with its own
\* status and detail: toolchain missing as 500 with the JDK message, no entry
\* point as 400 with the no-main message, a timeout as 400 with the timeout
\* message, an internal fault as 500 with neither of the fixed messages; so
\* two failures of different categories never look alike and two of the same
\* category carry the same status.
FaultsKeepTheirClass ==
    \A r \in Reqs :
        Failed(r) =>
            CASE Category(r) = "toolchain" ->
                    resp[r] = HTTPError(500, JdkMissing)
              [] Category(r) = "no entry point" ->
                    resp[r] = HTTPError(400, NoMainDetail)
              [] Category(r) = "timeout" ->
                    resp[r] = HTTPError(400, TimedOut)
              [] OTHER ->
                    /\ resp[r].stage = "error"
                    /\ resp[r].status_code = 500
                    /\ resp[r].detail \notin {JdkMissing, NoMainDetail, TimedOut}

\* C5: when extract_public_type finds a public type named T, the source file
\* in the workspace is T.java (and no other source file is there), and T.java
\* is the file the compiler is started on.
SourceFileNamedAfterType ==
    \A r \in Reqs :
        LET T == extract_public_type(code[r]) IN
        (T.name # "" /\ T.kind \in Kinds) =>
            /\ Written(r) =>
                  \A f \in fs[work_dir[r]].files :
                      f.ext = "java" => (f.dir = <<>> /\ f.stem = T.name)
            /\ Written(r) =>
                  \E f \in fs[work_dir[r]].files :
                      f.ext = "java" /\ f.dir = <<>> /\ f.stem = T.name
            /\ pc[r] = "compiling" => ToolsStarted(r, "javac") # {}
            /\ \A i \in ToolsStarted(r, "javac") :
                  log[r][i].arg = << T.name, "java" >>

\* C5 witness: the compiler runs on Foo.java for a source whose public type
\* is a record named Foo.
SourceFileNamedAfterTypeWitness ==
    \E r \in Reqs :
        /\ pc[r] = "compiling"
        /\ extract_public_type(code[r]) = [kind |-> "record", name |-> "Foo"]
        /\ \E i \in ToolsStarted(r, "javac") : log[r][i].arg = << "Foo", "java" >>

\* C6: when no public type is found, the source is written to Main.java and
\* the compiler is started on it; only a missing toolchain or a failure to
\* write the file ends such a request before the compiler is started.
DefaultSourceFileCompiled ==
    \A r \in Reqs :
        extract_public_type(code[r]).name = "" =>
            /\ Written(r) =>
                  \E f \in fs[work_dir[r]].files :
                      f.ext = "java" /\ f.dir = <<>> /\ f.stem = "Main"
            /\ pc[r] = "compiling" => ToolsStarted(r, "javac") # {}
            /\ \A i \in ToolsStarted(r, "javac") :
                  log[r][i].arg = << "Main", "java" >>
            /\ (pc[r] \in {"finally", "done"} /\ ToolsStarted(r, "javac") = {}) =>
                  \/ raised[r] = Exc("HTTPException", 500, JdkMissing)
                  \/ raised[r].type = "OSError"

\* C6 witness: a source with no public type (what follows `public class` is
\* no identifier) has been compiled from Main.java.
DefaultSourceFileCompiledWitness ==
    \E r \in Reqs :
        /\ pc[r] = "introspect"
        /\ \E i \in 1..Len(code[r]) : code[r][i] = <<"9x">>
        /\ extract_public_type(code[r]).name = ""
        /\ \E i \in ToolsStarted(r, "javac") : log[r][i].arg = << "Main", "java" >>

\* C7: when compilation succeeds and introspection returns exactly one
\* candidate, the launcher is started on that candidate, once, and main_class
\* of the run response is that candidate, whatever the source text says.
SingleCandidateLaunched ==
    \A r \in Reqs :
        (Resolved(r) /\ Len(mains[r]) = 1) =>
            /\ candidate[r] = mains[r][1]
            /\ Cardinality(ToolsStarted(r, "java")) = 1
            /\ \A i \in ToolsStarted(r, "java") : log[r][i].arg = mains[r][1]
            /\ (pc[r] = "done" /\ resp[r].stage = "run") =>
                  resp[r].main_class = mains[r][1]

\* C7 witness: the source declares package p.q and a public type Foo with a
\* textual main, introspection found Main alone, and Main was run.
SingleCandidateLaunchedWitness ==
    \E r \in Reqs :
        /\ pc[r] = "done"
        /\ resp[r].stage = "run"
        /\ mains[r] = << <<"Main">> >>
        /\ public_name[r] = "Foo"
        /\ extract_package_name(code[r]) = <<"p", "q">>
        /\ code_mentions_main(code[r])
        /\ resp[r].main_class = <<"Main">>

\* C8: when compilation succeeds, introspection yields no candidate (the
\* tool may be missing), and the source has a public type T and a textual
\* main signature, the entry point is P.T for a declared package P and T
\* without one, and the launcher is started on it.
TextualFallbackQualified ==
    \A r \in Reqs :
        LET T == extract_public_type(code[r]).name
            P == extract_package_name(code[r])
        IN  (Resolved(r) /\ mains[r] = <<>> /\ T # "" /\ code_mentions_main(code[r])) =>
                /\ P # <<>> => candidate[r] = P \o << T >>
                /\ P = <<>> => candidate[r] = << T >>
                /\ Cardinality(ToolsStarted(r, "java")) = 1
                /\ \A i \in ToolsStarted(r, "java") : log[r][i].arg = candidate[r]

\* C8 witness: with the introspection tool missing, a source in package p.q
\* whose public type Foo has a textual main is launched as p.q.Foo.
TextualFallbackQualifiedWitness ==
    \E r \in Reqs :
        /\ pc[r] = "running"
        /\ ~javap_path[r]
        /\ mains[r] = <<>>
        /\ code_mentions_main(code[r])
        /\ candidate[r] = <<"p", "q", "Foo">>
        /\ ChildrenOf(r) = { Child(r, "java", work_dir[r]) }

\* C9: when compilation succeeds and there is no candidate (introspection
\* empty or unavailable, no public type in the source), the launcher is never
\* started and the caller receives the 400 "No main(String[]) method found
\* to run." error.
NoEntryPointReported ==
    \A r \in Reqs :
        (pc[r] = "done" /\ Compiled(r) /\ mains[r] = <<>>
            /\ extract_public_type(code[r]).name = "") =>
                /\ ToolsStarted(r, "java") = {}
                /\ resp[r] = HTTPError(400, NoMainDetail)

\* C10: when the execution timeout expires on a running program, the child
\* is killed (no child of the request is alive from then on) and the caller
\* receives the timeout error, not a stage:"run" response.
ExecutionTimeoutKills ==
    \A r \in Reqs :
        raised[r] = Exc("TimeoutExpired", 0, "java") =>
            /\ ChildrenOf(r) = {}
            /\ pc[r] \in {"finally", "done"}
            /\ pc[r] = "done" =>
                /\ resp[r] = HTTPError(400, TimedOut)
                /\ resp[r].stage # "run"

\* C10 witness: a launched program that ran into the execution timeout has
\* been answered.
ExecutionTimeoutKillsWitness ==
    \E r \in Reqs :
        /\ pc[r] = "done"
        /\ raised[r] = Exc("TimeoutExpired", 0, "java")
        /\ ToolsStarted(r, "java") # {}
        /\ procs = {}

\* the request holds a workspace directory
Live(r) == pc[r] \notin {"idle", "mkdtemp", "done"}

\* C4: however concurrent requests interleave, also when they declare the
\* same public type, the workspaces of two live requests differ, a live
\* request's workspace exists and is its own, every file in a workspace
\* comes from the source text of the request that owns it, every child
\* process is started in the workspace of its request, and no request fails
\* for a file or directory another one replaced or removed: a request's
\* result is that of running alone.
WorkspacesIsolated ==
    /\ \A r1, r2 \in Reqs :
          (r1 # r2 /\ Live(r1) /\ Live(r2)) => work_dir[r1] # work_dir[r2]
    /\ \A r \in Reqs :
          Live(r) => (fs[work_dir[r]].exists /\ fs[work_dir[r]].owner = r)
    /\ \A d \in DirNames :
          fs[d].exists => \A f \in fs[d].files : f.origin = fs[d].owner
    /\ \A r \in Reqs :
          /\ \A i \in 1..Len(log[r]) : log[r][i].cwd = work_dir[r]
          /\ \A p \in ChildrenOf(r) : Live(r) /\ p.cwd = work_dir[r]
          /\ raised[r].detail # ENOENT
          /\ compile_process[r].returncode # 2

\* C4 witness: two requests that both declare `public class Main` are
\* running their programs at once, each from the Main.class of its own
\* workspace.
WorkspacesIsolatedWitness ==
    \E r1, r2 \in Reqs :
        /\ r1 # r2
        /\ pc[r1] = "running" /\ pc[r2] = "running"
        /\ public_name[r1] = "Main" /\ public_name[r2] = "Main"
        /\ candidate[r1] = <<"Main">> /\ candidate[r2] = <<"Main">>
        /\ work_dir[r1] # work_dir[r2]
        /\ \E g \in ClassesNamed(fs, work_dir[r1], <<"Main">>) : g.origin = r1
        /\ \E g \in ClassesNamed(fs, work_dir[r2], <<"Main">>) : g.origin = r2

\* C11: in every stage:"run" response the output field is the program's
\* stdout when that is non-empty and its stderr otherwise, and the stdout and
\* stderr fields are the program's two streams as they were.
OutputPrefersStdout ==
    \A r \in Reqs :
        (pc[r] = "done" /\ resp[r].stage = "run") =>
            /\ resp[r].stdout = run_process[r].stdout
            /\ resp[r].stderr = run_process[r].stderr
            /\ run_process[r].stdout # "" =>
                  resp[r].output = run_process[r].stdout
            /\ run_process[r].stdout = "" =>
                  resp[r].output = run_process[r].stderr

\* C11 witness: a program that printed nothing on stdout and a warning on
\* stderr has been answered with the warning as output.
OutputPrefersStdoutWitness ==
    \E r \in Reqs :
        /\ pc[r] = "done"
        /\ resp[r].stage = "run"
        /\ run_process[r].stdout = ""
        /\ run_process[r].stderr = "warn"
        /\ resp[r].output = "warn"

\* the names of directories and class files in the order of their path
\* strings ("Main$Inner.class" sorts before "Main.class")
NameOrder == << "Foo", "Helper", "Main$Inner", "Main", "p", "q" >>
NameRank(n) == CHOOSE i \in 1..Len(NameOrder) : NameOrder[i] = n
\* lexicographic order of two paths given by their components
RECURSIVE PathBefore(_, _)
PathBefore(a, b) ==
    IF a = <<>> THEN b # <<>>
    ELSE IF b = <<>> THEN FALSE
    ELSE IF Head(a) = Head(b) THEN PathBefore(Tail(a), Tail(b))
    ELSE NameRank(Head(a)) < NameRank(Head(b))

\* C12: when introspection yields more than one candidate, the entry point
\* chosen is the candidate whose class file comes first in lexicographic path
\* order, so the choice depends on the set of class files alone.
FirstInPathOrderChosen ==
    \A r \in Reqs :
        (Resolved(r) /\ Len(mains[r]) > 1) =>
            \A i \in 1..Len(mains[r]) :
                mains[r][i] # candidate[r] => PathBefore(candidate[r], mains[r][i])

\* C13: when the compile timeout expires on a running compiler, the compiler
\* is killed (no child of the request is alive from then on), neither the
\* introspection tool nor the launcher is ever started, and the caller
\* receives the timeout error, not a stage:"compile" response.
CompileTimeoutStops ==
    \A r \in Reqs :
        raised[r] = Exc("TimeoutExpired", 0, "javac") =>
            /\ ChildrenOf(r) = {}
            /\ ToolsStarted(r, "javap") = {}
            /\ ToolsStarted(r, "java") = {}
            /\ pc[r] \in {"finally", "done"}
            /\ pc[r] = "done" =>
                /\ resp[r] = HTTPError(400, TimedOut)
                /\ resp[r].stage # "compile"

\* C13 witness: a request whose compiler ran into the compile timeout has
\* been answered, with the compiler the only tool it started.
CompileTimeoutStopsWitness ==
    \E r \in Reqs :
        /\ pc[r] = "done"
        /\ raised[r] = Exc("TimeoutExpired", 0, "javac")
        /\ Len(log[r]) = 1
        /\ log[r][1].tool = "javac"
        /\ resp[r].stage = "error"
        /\ procs = {}

\* the timeouts of the children a request started, added up
RECURSIVE Budgets(_)
Budgets(l) == IF l = <<>> THEN 0 ELSE Head(l).timeout + Budgets(Tail(l))

\* C14 as stated: a request waits for a child process in the compile and the
\* execute step only, and the compiler and the launcher each get their own
\* timeout, whatever time the request has spent before.
OnlyCompileAndRunSuspend ==
    /\ \A p \in procs :
          /\ p.tool \in {"javac", "java"}
          /\ pc[p.owner] \in {"compiling", "running"}
    /\ \A r \in Reqs : \A i \in 1..Len(log[r]) :
          /\ log[r][i].tool = "javac" => log[r][i].timeout = COMPILE_TIMEOUT
          /\ log[r][i].tool = "java" => log[r][i].timeout = RUN_TIMEOUT

\* C14 amended: a request waits for a child process in the compile step, in
\* the introspection of each class file and in the execute step, and nowhere
\* else; the compiler, each run of the introspection tool and the launcher
\* get their own timeout (20, 5 and 10 seconds) whatever time the request
\* has spent before, and the request waits for no child beyond its timeout.
TimeoutsIndependent ==
    /\ \A p \in procs :
          \/ p.tool = "javac" /\ pc[p.owner] = "compiling"
          \/ p.tool = "javap" /\ pc[p.owner] = "javap"
          \/ p.tool = "java" /\ pc[p.owner] = "running"
    /\ \A r \in Reqs :
          /\ pc[r] \in {"compiling", "javap", "running"} => ChildrenOf(r) # {}
          /\ \A i \in 1..Len(log[r]) :
                /\ log[r][i].tool = "javac" => log[r][i].timeout = COMPILE_TIMEOUT
                /\ log[r][i].tool = "javap" => log[r][i].timeout = JAVAP_TIMEOUT
                /\ log[r][i].tool = "java" => log[r][i].timeout = RUN_TIMEOUT
          /\ clock[r] <= Budgets(log[r])

\* C14 witness: after a compilation that took its full twenty seconds and
\* two runs of the introspection tool, the launcher is running with a
\* timeout of ten seconds.
TimeoutsIndependentWitness ==
    \E r \in Reqs :
        /\ pc[r] = "running"
        /\ clock[r] >= COMPILE_TIMEOUT + 2
        /\ Cardinality(ToolsStarted(r, "javap")) = 2
        /\ log[r][Len(log[r])].tool = "java"
        /\ log[r][Len(log[r])].timeout = RUN_TIMEOUT

\* C15: a program that ends within its time with a non-zero exit code raises
\* no error: the caller receives the stage:"run" response with that exit
\* code, the program's stdout and stderr as they were, and main_class.
NonZeroExitIsRunResponse ==
    \A r \in Reqs :
        run_process[r].returncode # 0 =>
            /\ raised[r] = NoExc
            /\ pc[r] \in {"finally", "done"}
            /\ pc[r] = "done" =>
                /\ resp[r].stage = "run"
                /\ resp[r].ok = TRUE
                /\ resp[r].exit_code = run_process[r].returncode
                /\ resp[r].stdout = run_process[r].stdout
                /\ resp[r].stderr = run_process[r].stderr
                /\ resp[r].main_class = candidate[r]

\* C15 witness: a program with a main method that printed a line and then
\* died of an uncaught exception has been answered with exit code 1.
NonZeroExitIsRunResponseWitness ==
    \E r \in Reqs :
        /\ pc[r] = "done"
        /\ run_process[r] = Proc(1, "hi\n", "Exception in thread \"main\"")
        /\ resp[r].stage = "run"
        /\ resp[r].exit_code = 1
        /\ resp[r].stdout = "hi\n"

\* C16: the step in which a request finds the compiler or the launcher
\* missing ends it with the toolchain error, the request having created no
\* directory and started no child, and leaves every directory, every file
\* and every child process as it was.
ToolchainFailsFast ==
    [][\A r \in Reqs :
          (pc[r] = "idle" /\ pc'[r] # "idle" /\ (~javac_path'[r] \/ ~java_path'[r])) =>
              /\ pc'[r] = "done"
              /\ resp'[r] = HTTPError(500, JdkMissing)
              /\ work_dir'[r] = NoDir
              /\ log'[r] = <<>>
              /\ fs' = fs
              /\ procs' = procs]_vars

\* C16 witness: a request that found no launcher has been refused while
\* another one has its workspace and its program running.
ToolchainFailsFastWitness ==
    \E r1, r2 \in Reqs :
        /\ pc[r1] = "done"
        /\ javac_path[r1] /\ ~java_path[r1]
        /\ resp[r1] = HTTPError(500, JdkMissing)
        /\ work_dir[r1] = NoDir
        /\ pc[r2] = "running"
        /\ fs[work_dir[r2]].exists
        /\ procs = { Child(r2, "java", work_dir[r2]) }

\* C17: when compilation succeeds, introspection yields no candidate and the
\* source has no textual main signature but a public type T, the entry point
\* is T, prefixed by the declared package if there is one, and the launcher
\* is started on it; when the launcher then fails for want of a main method,
\* the caller receives that failure as a stage:"run" response and no error.
BestEffortCandidateRun ==
    \A r \in Reqs :
        (Resolved(r) /\ mains[r] = <<>> /\ public_name[r] # ""
            /\ ~code_mentions_main(code[r])) =>
                LET P == extract_package_name(code[r])
                IN  /\ P # <<>> => candidate[r] = P \o << public_name[r] >>
                    /\ P = <<>> => candidate[r] = << public_name[r] >>
                    /\ Cardinality(ToolsStarted(r, "java")) = 1
                    /\ \A i \in ToolsStarted(r, "java") :
                          log[r][i].arg = candidate[r]
                    /\ (pc[r] = "done" /\ run_process[r] = LauncherError) =>
                          /\ raised[r] = NoExc
                          /\ resp[r].stage = "run"
                          /\ resp[r].exit_code = LauncherError.returncode
                          /\ resp[r].stderr = LauncherError.stderr
                          /\ resp[r].main_class = candidate[r]

\* C17 witness: the introspection tool found no main method in p/q/Foo.class,
\* the source of package p.q has a public type Foo and no main signature,
\* and the launcher's failure on p.q.Foo has been returned as a run response.
BestEffortCandidateRunWitness ==
    \E r \in Reqs :
        /\ pc[r] = "done"
        /\ ToolsStarted(r, "javap") # {}
        /\ mains[r] = <<>>
        /\ public_name[r] = "Foo"
        /\ ~code_mentions_main(code[r])
        /\ run_process[r] = LauncherError
        /\ resp[r].stage = "run"
        /\ resp[r].main_class = <<"p", "q", "Foo">>
        /\ resp[r].output = LauncherError.stderr

\* a binary name of a nested class
IsNested(b) == b[Len(b)] \in {"Main$Inner"}

\* C18: the introspection tool is never started on a class file whose name
\* contains `$`, so no nested type is ever a candidate; and every candidate
\* is the binary name of a class file of the workspace (its path below the
\* workspace root, dots for separators, without `.class`) that the tool was
\* run on and that has a public static void main over String[] or String....
CandidatesAreTopLevelMains ==
    \A r \in Reqs :
        /\ \A i \in ToolsStarted(r, "javap") : ~IsNested(log[r][i].arg)
        /\ \A k \in 1..Len(mains[r]) :
              /\ ~IsNested(mains[r][k])
              /\ \E i \in ToolsStarted(r, "javap") : log[r][i].arg = mains[r][k]
              /\ pc[r] # "done" =>
                    \E f \in fs[work_dir[r]].files :
                        /\ f.ext = "class"
                        /\ f.dir \o << f.stem >> = mains[r][k]
                        /\ f.hasMain

\* C18 witness: the workspace holds Main.class and Main$Inner.class, both
\* with a main method; the scan is over, the tool was run once, on Main,
\* and Main is the only candidate.
CandidatesAreTopLevelMainsWitness ==
    \E r \in Reqs :
        /\ pc[r] = "resolve"
        /\ \E f \in fs[work_dir[r]].files : f.stem = "Main$Inner" /\ f.hasMain
        /\ Cardinality(ToolsStarted(r, "javap")) = 1
        /\ mains[r] = << <<"Main">> >>

\* the last run of the introspection tool failed: it timed out or returned
\* a non-zero exit code
LastJavapFailed(r) ==
    \/ javap_result[r].t = "raise"
    \/ javap_result[r].t = "return" /\ javap_result[r].v.returncode # 0

\* where the log has the last child of the request that ended
LastEnded(r) == IF ChildrenOf(r) # {} THEN Len(log[r]) - 1 ELSE Len(log[r])

\* C19: a run of the introspection tool that times out or returns non-zero
\* fails nothing: no exception is pending while the scan goes on, the class
\* of the failed run is no candidate, when the scan is over the tool has been
\* run on every class file that is not nested, a request left without a
\* candidate gets the public type of the source text as its entry point, and
\* no timeout error ever comes from the introspection tool.
IntrospectionFailureSwallowed ==
    \A r \in Reqs :
        /\ pc[r] \in {"scan", "javap"} =>
              (raised[r] = NoExc /\ pending[r].t = "none")
        /\ LastJavapFailed(r) =>
              /\ pc[r] \in {"scan", "javap"}
              /\ LastEnded(r) \in ToolsStarted(r, "javap")
              /\ \A k \in 1..Len(mains[r]) :
                    mains[r][k] # log[r][LastEnded(r)].arg
        /\ (pc[r] = "resolve" /\ javap_path[r]) =>
              \A f \in fs[work_dir[r]].files :
                  (f.ext = "class" /\ ~IsNested(<< f.stem >>)) =>
                      \E i \in ToolsStarted(r, "javap") :
                          log[r][i].arg = f.dir \o << f.stem >>
        /\ (Resolved(r) /\ mains[r] = <<>> /\ public_name[r] # "") =>
              /\ candidate[r] =
                    Qualified(extract_package_name(code[r]), public_name[r])
              /\ ToolsStarted(r, "java") # {}
        /\ raised[r].type = "TimeoutExpired" =>
              raised[r].detail \in {"javac", "java"}
        /\ (pc[r] = "done" /\ resp[r] = HTTPError(400, TimedOut)) =>
              raised[r].type = "TimeoutExpired"

\* C19 witness: the introspection tool timed out on the first class file
\* with a main method and is running on the second one.
IntrospectionFailureSwallowedWitness ==
    \E r \in Reqs :
        /\ pc[r] = "javap"
        /\ javap_result[r].t = "raise"
        /\ mains[r] = <<>>
        /\ Cardinality(ToolsStarted(r, "javap")) = 2
        /\ \A f \in fs[work_dir[r]].files : f.ext = "class" => f.hasMain
        /\ ChildrenOf(r) = { Child(r, "javap", work_dir[r]) }

====
